---- MODULE Spec2Model ----
(***************************************************************************)
(* Timestamp normalisation and market-data processing of LiquidityModels:  *)
(* src/utils/time_utils.py (convert_to_et, get_market_open_close_et,       *)
(* is_within_time_window and the session checks) and                       *)
(* src/data_handler/market_data_loader.py (parse_timestamp,                *)
(* process_data_timestamps, calculate_initial_balance).                    *)
(*                                                                         *)
(* Time is counted in whole seconds since 1970-01-01T00:00:00 UTC plus a   *)
(* sub-second part in nanoseconds, as the datetime libraries do.  A civil  *)
(* (zone-free) date-time is the same count taken on the wall clock ("local *)
(* seconds").  The zone table holds the real UTC offsets and the real      *)
(* daylight-saving periods of 2023 and 2024 of the zones used.             *)
(*                                                                         *)
(* Python values are records tagged with their type; a raised exception is *)
(* the value Exc(name) until a try/except of the code handles it.          *)
(***************************************************************************)
EXTENDS Integers, Sequences, FiniteSets, TLC

VARIABLES
    pc,                  \* "idle": no call made yet; "returned": a call has returned
    op,                  \* the function that was called last
    arg_input,           \* the first argument of the call: timestamp_input,
                         \* date_input, dt_object or processed_data_et
    arg_tz,              \* convert_to_et: its argument original_tz_str
    arg_start,           \* the start (open) time given to the call
    arg_end,             \* the end (close) time given to the call
    arg_market_tz,       \* calculate_initial_balance: its argument market_tz_str
    ret,                 \* the returned value, or the exception that left the call
    printed,             \* convert_to_et: the diagnostic the call printed
    arg_raw_data,        \* process_data_timestamps: its argument raw_data
    arg_default_tz,      \* process_data_timestamps: its argument default_original_tz
    processed_data,      \* process_data_timestamps: the returned list
    arg_ohlc_data_frame, \* the price lookups: their argument ohlc_data_frame
    input_after          \* the list given to process_data_timestamps or to
                         \* calculate_initial_balance, as it is after the call

vars == <<pc, op, arg_input, arg_tz, arg_start, arg_end, arg_market_tz, ret, printed,
          arg_raw_data, arg_default_tz, processed_data, arg_ohlc_data_frame, input_after>>

-----------------------------------------------------------------------------
(* Bounds of the model. *)

\* civil times are sampled every half hour, MaxSteps steps from each anchor
MaxSteps == 5
\* epoch numbers near 0 are n and n + 1/2 for n in -MaxEpochSecs .. MaxEpochSecs
MaxEpochSecs == 2
\* longest list given to process_data_timestamps
MaxBatch == 2

-----------------------------------------------------------------------------
(* Python values. *)

None == [type |-> "NoneType"]
\* a bool and a tuple, returned by the functions of time_utils.py
Bool(b) == [type |-> "bool", val |-> b]
Tuple(items) == [type |-> "tuple", items |-> items]
\* original_tz_str=None (the parameter is an optional str)
NoTz == "None"
Exc(name) == [type |-> "exception", name |-> name]
IsExc(v) == v.type = "exception"
\* Python truth value of an optional str: None and "" are false
Truthy(s) == s # NoTz /\ s # ""

Instant(secs, nanos) == [type |-> "Instant", secs |-> secs, nanos |-> nanos]
ZonedDateTime(secs, nanos, tz) ==
    [type |-> "ZonedDateTime", secs |-> secs, nanos |-> nanos, tz |-> tz]
PlainDateTime(ls, nanos) == [type |-> "PlainDateTime", ls |-> ls, nanos |-> nanos]
\* datetime.datetime: wall-clock fields and tzinfo
NoTzInfo == [kind |-> "None"]
\* datetime.timezone(offset): the standard library's fixed-offset tzinfo
FixedTz(off) == [kind |-> "timezone", off |-> off]
\* zoneinfo.ZoneInfo(key); off is the utcoffset() of the datetime that carries it
ZoneInfoTz(key, off) == [kind |-> "ZoneInfo", key |-> key, off |-> off]
\* a pytz tzinfo as attached by localize(): zone and fixed utcoffset
PytzTz(zone, off) == [kind |-> "pytz", zone |-> zone, off |-> off]
Datetime(ls, nanos, tzinfo) ==
    [type |-> "datetime", ls |-> ls, nanos |-> nanos, tzinfo |-> tzinfo]
\* int or float n = floor + half/2 (half is 0 or 1); cls is "finite", "nan" or
\* "inf" (floats only)
Number(type, floor, half, cls) ==
    [type |-> type, floor |-> floor, half |-> half, cls |-> cls]

-----------------------------------------------------------------------------
(* Calendar and zone arithmetic of the libraries (whenever, pytz). *)

\* days from 1970-01-01 to the proleptic Gregorian date y-m-d
DaysFromCivil(y, m, d) ==
    LET yy  == IF m <= 2 THEN y - 1 ELSE y
        era == yy \div 400
        yoe == yy - era * 400
        mp  == IF m > 2 THEN m - 3 ELSE m + 9
        doy == (153 * mp + 2) \div 5 + d - 1
        doe == yoe * 365 + yoe \div 4 - yoe \div 100 + doy
    IN  era * 146097 + doe - 719468

\* seconds from 1970-01-01T00:00:00 to y-m-d h:mi:s on the same clock
LocalSecs(y, m, d, h, mi, s) ==
    DaysFromCivil(y, m, d) * 86400 + h * 3600 + mi * 60 + s

Hour(ls) == (ls % 86400) \div 3600
Minute(ls) == (ls % 3600) \div 60

TARGET_TZ_STR == "America/New_York"
NY_ZONEINFO == TARGET_TZ_STR

\* the zones of the tz database the model knows
Zones == {"America/New_York", "Europe/London", "UTC", "Africa/Cairo"}

StdOffset(z) ==
    CASE z = "America/New_York" -> -5 * 3600
      [] z = "Africa/Cairo" -> 2 * 3600
      [] OTHER -> 0

\* daylight-saving periods [from, to) in UTC seconds
NewYorkDst ==
    { <<LocalSecs(2023, 3, 12, 7, 0, 0), LocalSecs(2023, 11, 5, 6, 0, 0)>>,
      <<LocalSecs(2024, 3, 10, 7, 0, 0), LocalSecs(2024, 11, 3, 6, 0, 0)>> }
LondonDst ==
    { <<LocalSecs(2023, 3, 26, 1, 0, 0), LocalSecs(2023, 10, 29, 1, 0, 0)>>,
      <<LocalSecs(2024, 3, 31, 1, 0, 0), LocalSecs(2024, 10, 27, 1, 0, 0)>> }
\* Egypt changes its clocks on weekdays: forward on Friday 2023-04-28 at 00:00,
\* back at the end of Thursday 2023-10-26
CairoDst ==
    { <<LocalSecs(2023, 4, 27, 22, 0, 0), LocalSecs(2023, 10, 26, 21, 0, 0)>>,
      <<LocalSecs(2024, 4, 25, 22, 0, 0), LocalSecs(2024, 10, 31, 21, 0, 0)>> }
DstPeriods(z) ==
    CASE z = "America/New_York" -> NewYorkDst
      [] z = "Europe/London" -> LondonDst
      [] z = "Africa/Cairo" -> CairoDst
      [] OTHER -> {}

IsDst(z, t) == \E p \in DstPeriods(z) : p[1] <= t /\ t < p[2]

\* UTC offset of zone z at instant t
UtcOffset(z, t) == StdOffset(z) + (IF IsDst(z, t) THEN 3600 ELSE 0)

\* wall clock (local seconds) of instant t in zone z
WallClock(t, z) == t + UtcOffset(z, t)

\* the instants whose wall clock in zone z reads ls: none in a spring-forward
\* gap, two in a fall-back overlap, one otherwise
Candidates(ls, z) ==
    { t \in { ls - StdOffset(z), ls - StdOffset(z) - 3600 } : WallClock(t, z) = ls }

\* x.to_tz(tz): the same instant expressed in zone tz
\* mutant: the reading of the UTC clock is taken as a reading of the zone's clock
to_tz_keeps_reading(x, tz) ==
    IF IsExc(x) THEN x
    ELSE ZonedDateTime(x.secs - UtcOffset(tz, x.secs), x.nanos, tz)

to_tz(x, tz) == IF IsExc(x) THEN x ELSE ZonedDateTime(x.secs, x.nanos, tz)

\* mutant: disambiguate='compatible': the earlier instant of an overlap, and a
\* time in a gap moved forward by the length of the gap
assume_tz_compatible(pdt, tz) ==
    IF tz \notin Zones THEN Exc("TimeZoneNotFoundError")
    ELSE LET c == Candidates(pdt.ls, tz) IN
         IF c = {} THEN ZonedDateTime(pdt.ls - StdOffset(tz), pdt.nanos, tz)
         ELSE ZonedDateTime(CHOOSE t \in c : \A u \in c : t <= u, pdt.nanos, tz)

\* PlainDateTime.assume_tz(tz, disambiguate='raise')
assume_tz(pdt, tz) ==
    IF tz \notin Zones THEN Exc("TimeZoneNotFoundError")
    ELSE LET c == Candidates(pdt.ls, tz) IN
         IF c = {} THEN Exc("SkippedTime")
         ELSE IF Cardinality(c) > 1 THEN Exc("RepeatedTime")
         ELSE ZonedDateTime(CHOOSE t \in c : TRUE, pdt.nanos, tz)

\* int(x): truncation toward zero; int(nan) and int(inf) raise
int(x) ==
    IF x.cls = "nan" THEN Exc("ValueError")
    ELSE IF x.cls = "inf" THEN Exc("OverflowError")
    ELSE IF x.floor < 0 /\ x.half = 1 THEN x.floor + 1 ELSE x.floor

\* whenever.Instant.from_timestamp(int(x)): the instant int(x) whole seconds
\* after the epoch; an exception raised by int(x) propagates
from_timestamp_int(x) == IF x.cls = "finite" THEN Instant(int(x), 0) ELSE int(x)

\* the instant an aware datetime.datetime denotes
from_py_datetime(py_dt) == Instant(py_dt.ls - py_dt.tzinfo.off, py_dt.nanos)

-----------------------------------------------------------------------------
(* Strings.  A Python str is the list of its space-separated parts         *)
(* (s.split(" ")); each part carries its text, its '/'-separated segments, *)
(* the characters the code looks for, and what the date parser reads in it.*)

Token(txt, segs, kind, ls, hasOff, off, chars) ==
    [txt |-> txt, segs |-> segs, kind |-> kind, ls |-> ls,
     hasOff |-> hasOff, off |-> off, chars |-> chars]
Str(parts) == [type |-> "str", parts |-> parts]

\* "2023-10-25": a date, ls its midnight
DateTok(ls) == Token("YYYY-MM-DD", <<"YYYY-MM-DD">>, "date", ls, FALSE, 0, {})
\* "10/25/2023": the same date written with slashes
SlashDateTok(ls) == Token("MM/DD/YYYY", <<"10", "25", "2023">>, "date", ls, FALSE, 0, {})
\* "09:30:00": a time of day, ls its seconds since midnight
TimeTok(ls) == Token("HH:MM:SS", <<"HH:MM:SS">>, "time", ls, FALSE, 0, {})
\* "2023-10-25T09:30:00": ISO 8601 date and time
IsoTok(ls) == Token("YYYY-MM-DDTHH:MM:SS", <<"YYYY-MM-DDTHH:MM:SS">>, "datetime", ls, FALSE, 0, {})
\* "2023-08-15T13:30:00Z"
IsoZTok(ls) == Token("YYYY-MM-DDTHH:MM:SSZ", <<"YYYY-MM-DDTHH:MM:SSZ">>, "datetime", ls, TRUE, 0, {"Z"})
\* "2023-08-15T15:30:00+02:00" and "2023-08-15T09:30:00-04:00"
IsoOffTok(ls, off) ==
    Token("YYYY-MM-DDTHH:MM:SS+HH:MM", <<"YYYY-MM-DDTHH:MM:SS+HH:MM">>, "datetime", ls, TRUE, off,
          IF off >= 0 THEN {"+"} ELSE {})
\* "Europe/London", "Mars/Olympus", "hello": a word that is no date or time
WordTok(txt, segs) == Token(txt, segs, "word", 0, FALSE, 0, {})

\* str.isdigit() of the segments used
IsDigit(seg) == seg \in {"10", "25", "2023"}

\* c in s
HasChar(s, c) == \E i \in DOMAIN s.parts : c \in s.parts[i].chars

\* s.count('-') >= 3 and s[10:].startswith("-"): position 10 of every string
\* of the model holds the separator after the date (' ' or 'T') or a letter
CrudeNegativeOffset(s) == FALSE

\* whenever.OffsetDateTime.parse_common_iso(s), and on ValueError
\* whenever.Instant.parse_common_iso(s): strict ISO 8601 with an offset or Z
parse_common_iso(s) ==
    IF Len(s.parts) = 1 /\ s.parts[1].kind = "datetime" /\ s.parts[1].hasOff
    THEN Instant(s.parts[1].ls - s.parts[1].off, 0)
    ELSE Exc("ValueError")

\* pd.to_datetime(text).to_pydatetime(), text given by its parts
pd_to_datetime(parts) ==
    IF Len(parts) = 1 /\ parts[1].kind = "datetime"
    THEN Datetime(parts[1].ls, 0,
                  IF parts[1].hasOff THEN FixedTz(parts[1].off) ELSE NoTzInfo)
    ELSE IF Len(parts) = 1 /\ parts[1].kind = "date"
    THEN Datetime(parts[1].ls, 0, NoTzInfo)
    ELSE IF Len(parts) = 2 /\ {parts[1].kind, parts[2].kind} = {"date", "time"}
    THEN Datetime(parts[1].ls + parts[2].ls, 0, NoTzInfo)
    ELSE Exc("ValueError")

\* " ".join(parts[:-1])
ButLast(parts) == SubSeq(parts, 1, Len(parts) - 1)
Last(parts) == parts[Len(parts)]

-----------------------------------------------------------------------------
(* convert_to_et (src/utils/time_utils.py).  A call yields the value it    *)
(* returns (or the exception that leaves it) and the diagnostic it prints. *)

Returned(v) == [val |-> v, printed |-> "nothing"]
Failed(msg) == [val |-> None, printed |-> msg]

\* mutant: a naive datetime without original_tz_str is taken as target-zone time
convert_to_et_datetime_assumes_target(py_dt, original_tz_str) ==
    IF py_dt.tzinfo = NoTzInfo
    THEN Returned(to_tz(assume_tz(PlainDateTime(py_dt.ls, py_dt.nanos),
                                  IF Truthy(original_tz_str) THEN original_tz_str
                                  ELSE TARGET_TZ_STR), NY_ZONEINFO))
    ELSE Returned(to_tz(from_py_datetime(py_dt), NY_ZONEINFO))

\* lines 77-105: timestamp_input is a datetime.datetime
convert_to_et_datetime(py_dt, original_tz_str) ==
    IF py_dt.tzinfo = NoTzInfo
    THEN IF ~Truthy(original_tz_str)
         THEN Failed("Error: Naive Python datetime provided without original_tz_str")
         ELSE Returned(to_tz(assume_tz(PlainDateTime(py_dt.ls, py_dt.nanos),
                                       original_tz_str), NY_ZONEINFO))
    ELSE IF py_dt.tzinfo.kind = "timezone"
    THEN Returned(to_tz(from_py_datetime(py_dt), NY_ZONEINFO))
    ELSE IF py_dt.tzinfo.kind = "ZoneInfo"
    THEN \* ZonedDateTime.from_py_datetime(py_dt).to_tz(NY_ZONEINFO)
         Returned(to_tz(ZonedDateTime(py_dt.ls - py_dt.tzinfo.off, py_dt.nanos,
                                      py_dt.tzinfo.key), NY_ZONEINFO))
    ELSE \* ValueError: py_dt.astimezone(utc), then Instant.from_py_datetime
         Returned(to_tz(from_py_datetime(py_dt), NY_ZONEINFO))

\* whenever.Date(2000,1,1).at(whenever.Time(0,0))
ProbeDateTime == PlainDateTime(LocalSecs(2000, 1, 1, 0, 0, 0), 0)

\* lines 130-147: the zone name the string ends with, or NoTz
potential_tz_name_from_string(s) ==
    LET parts == s.parts
        last_part == Last(parts)
        probe == assume_tz(ProbeDateTime, last_part.txt)
    IN  IF Len(parts) > 1
           /\ Len(last_part.segs) > 1
           /\ ~IsDigit(last_part.segs[1])
           /\ ~IsExc(probe)
        THEN last_part.txt
        ELSE NoTz

\* mutant: a naive string without any zone is left without one
final_tz_without_default(py_dt_from_pd, tz_in_s, original_tz_str) ==
    IF tz_in_s # NoTz THEN tz_in_s ELSE original_tz_str

\* mutant: a naive string without any zone is taken as UTC
final_tz_default_utc(py_dt_from_pd, tz_in_s, original_tz_str) ==
    IF tz_in_s # NoTz THEN tz_in_s
    ELSE IF py_dt_from_pd.tzinfo = NoTzInfo /\ ~Truthy(original_tz_str)
    THEN "UTC"
    ELSE original_tz_str

\* lines 157-162: the zone the parsed datetime is converted with
final_original_tz_for_conversion(py_dt_from_pd, tz_in_s, original_tz_str) ==
    IF tz_in_s # NoTz THEN tz_in_s
    ELSE IF py_dt_from_pd.tzinfo = NoTzInfo /\ ~Truthy(original_tz_str)
    THEN TARGET_TZ_STR
    ELSE original_tz_str

RECURSIVE convert_to_et(_, _)

\* lines 113-173: timestamp_input is a str
convert_to_et_str(s, original_tz_str) ==
    LET looks_iso == HasChar(s, "Z") \/ HasChar(s, "+") \/ CrudeNegativeOffset(s)
        tz_in_s == potential_tz_name_from_string(s)
        datetime_part_str == IF tz_in_s # NoTz THEN ButLast(s.parts) ELSE s.parts
        py_dt_from_pd == pd_to_datetime(datetime_part_str)
    IN  IF looks_iso /\ ~IsExc(parse_common_iso(s))
        THEN Returned(to_tz(parse_common_iso(s), NY_ZONEINFO))
        ELSE IF IsExc(py_dt_from_pd)
        THEN Failed("Error: Pandas could not parse string timestamp")
        ELSE convert_to_et(py_dt_from_pd,
                           final_original_tz_for_conversion(py_dt_from_pd, tz_in_s,
                                                            original_tz_str))

\* lines 60-176: the body of the try statement
convert_to_et_try(timestamp_input, original_tz_str) ==
    IF timestamp_input.type = "Instant"
    THEN Returned(to_tz(timestamp_input, NY_ZONEINFO))
    ELSE IF timestamp_input.type = "ZonedDateTime"
    THEN IF timestamp_input.tz = TARGET_TZ_STR
         THEN Returned(timestamp_input)
         ELSE Returned(to_tz(timestamp_input, NY_ZONEINFO))
    ELSE IF timestamp_input.type = "PlainDateTime" /\ ~Truthy(original_tz_str)
    THEN Failed("Error: whenever.PlainDateTime provided without original_tz_str")
    \* line 74 (assume_tz(...).to_tz(...)) is indented under the if of line 69,
    \* after its return: with an original_tz_str the PlainDateTime falls through
    ELSE IF timestamp_input.type = "datetime"
    THEN convert_to_et_datetime(timestamp_input, original_tz_str)
    ELSE IF timestamp_input.type \in {"int", "float"}
    THEN Returned(to_tz(from_timestamp_int(timestamp_input), NY_ZONEINFO))
    ELSE IF timestamp_input.type = "str"
    THEN convert_to_et_str(timestamp_input, original_tz_str)
    ELSE Failed("Error: Unsupported timestamp input type")

\* mutant: the exception caught is handed back as the result of the call
convert_to_et_except_returns_error(out) ==
    IF ~IsExc(out.val) THEN out
    ELSE [val |-> out.val, printed |-> "nothing"]

\* mutant: no catch-all clause: an exception of another class leaves the call
convert_to_et_except_without_catch_all(out) ==
    IF ~IsExc(out.val) THEN out
    ELSE IF out.val.name \in {"SkippedTime", "RepeatedTime"}
    THEN Failed("Error: DST transition issue")
    ELSE IF out.val.name = "TimeZoneNotFoundError"
    THEN Failed("Error: Timezone not found")
    ELSE IF out.val.name = "ValueError"
    THEN Failed("Error: Value error during conversion")
    ELSE out

\* lines 178-189: the except clauses
convert_to_et_except(out) ==
    IF ~IsExc(out.val) THEN out
    ELSE IF out.val.name \in {"SkippedTime", "RepeatedTime"}
    THEN Failed("Error: DST transition issue")
    ELSE IF out.val.name = "TimeZoneNotFoundError"
    THEN Failed("Error: Timezone not found")
    ELSE IF out.val.name = "ValueError"
    THEN Failed("Error: Value error during conversion")
    ELSE Failed("An unexpected error occurred")

convert_to_et(timestamp_input, original_tz_str) ==
    convert_to_et_except(convert_to_et_try(timestamp_input, original_tz_str))

-----------------------------------------------------------------------------
(* parse_timestamp and process_data_timestamps                             *)
(* (src/data_handler/market_data_loader.py).                               *)

\* pytz's tz.localize(dt, is_dst), tz = pytz.timezone(zone); is_dst is
\* "None" (raise on a gap or an overlap) or "False" (the default: standard time)
pytz_localize(dt, zone, is_dst) ==
    LET c == Candidates(dt.ls, zone) IN
    IF zone \notin Zones THEN Exc("UnknownTimeZoneError")
    ELSE IF Cardinality(c) = 1
    THEN Datetime(dt.ls, dt.nanos, PytzTz(zone, dt.ls - (CHOOSE t \in c : TRUE)))
    ELSE IF is_dst = "None"
    THEN IF c = {} THEN Exc("NonExistentTimeError") ELSE Exc("AmbiguousTimeError")
    ELSE Datetime(dt.ls, dt.nanos, PytzTz(zone, StdOffset(zone)))

\* pd.to_datetime(ts_input, unit='s', utc=True).to_pydatetime(): the fraction
\* of a second is kept
pd_to_datetime_unit_s(x) ==
    Datetime(x.floor, x.half * 500000000, FixedTz(0))

parse_timestamp(ts_input, original_tz_if_naive) ==
    IF ts_input.type = "datetime"
    THEN \* lines 49-62
         IF ts_input.tzinfo = NoTzInfo /\ Truthy(original_tz_if_naive)
         THEN LET dt_obj == pytz_localize(ts_input, original_tz_if_naive, "False")
              IN  IF IsExc(dt_obj) THEN None ELSE dt_obj
         ELSE ts_input
    ELSE IF ts_input.type \in {"int", "float"}
    THEN \* lines 64-73
         pd_to_datetime_unit_s(ts_input)
    ELSE IF ts_input.type = "str"
    THEN \* lines 75-100
         LET dt_obj == pd_to_datetime(ts_input.parts)
             localized == pytz_localize(dt_obj, original_tz_if_naive, "None")
         IN  IF IsExc(dt_obj) THEN None
             ELSE IF dt_obj.tzinfo = NoTzInfo /\ Truthy(original_tz_if_naive)
             THEN IF ~IsExc(localized) THEN localized
                  ELSE IF localized.name = "AmbiguousTimeError" THEN dt_obj
                  ELSE None
             ELSE dt_obj
    ELSE None

\* lines 122-162: the record appended to processed_data for one input record
process_record(record, default_original_tz) ==
    LET original_ts == record.timestamp
        parts == original_ts.parts
        parsed_dt ==
            IF original_ts.type = "str"
            THEN IF Len(parts) > 2 /\ Len(Last(parts).segs) > 1
                    /\ Last(parts).txt \in Zones
                 THEN parse_timestamp(Str(ButLast(parts)), Last(parts).txt)
                 ELSE parse_timestamp(original_ts, default_original_tz)
            ELSE IF original_ts.type = "datetime"
            THEN IF original_ts.tzinfo = NoTzInfo
                 THEN parse_timestamp(original_ts, default_original_tz)
                 ELSE original_ts
            ELSE IF original_ts.type \in {"int", "float"}
            THEN parse_timestamp(original_ts, NoTz)
            ELSE None
    IN  [ timestamp |-> record.timestamp,
          timestamp_et |->
              IF parsed_dt # None
              THEN convert_to_et(parsed_dt,
                                 IF parsed_dt.tzinfo = NoTzInfo
                                 THEN default_original_tz ELSE NoTz).val
              ELSE None ]

process_data_timestamps(raw_data, default_original_tz) ==
    [ i \in DOMAIN raw_data |-> process_record(raw_data[i], default_original_tz) ]

\* mutant: new_record is the input record itself, which receives timestamp_et
raw_record_written_in_place(record, default_original_tz) ==
    process_record(record, default_original_tz)
\* line 122: new_record = record.copy(); lines 155-157 write timestamp_et to
\* new_record, so the input record is left as it was
raw_record_after(record, default_original_tz) == record
\* lines 120-164: raw_data is only iterated; its records after the call
raw_data_after(raw_data, default_original_tz) ==
    [ i \in DOMAIN raw_data |-> raw_record_after(raw_data[i], default_original_tz) ]

\* lines 220-312: calculate_initial_balance

\* a price, and a key the record does not have
Num(v) == [type |-> "number", v |-> v]
Missing == [type |-> "missing"]
\* a record of processed_data_et
Bar(timestamp_et, high, low) == [timestamp_et |-> timestamp_et, high |-> high, low |-> low]
\* a str "HH:MM" as the fields of split(':'); a field is [int |-> TRUE, v |-> n]
\* when int() reads n in it and [int |-> FALSE, v |-> 0] when int() rejects it
Field(n) == [int |-> TRUE, v |-> n]
NotAnInt == [int |-> FALSE, v |-> 0]
TimeStr(txt, fields) == [type |-> "str", txt |-> txt, fields |-> fields]
Dict(items) == [type |-> "dict", items |-> items]

\* the physical instant of an aware datetime, in seconds
Timestamp(dt) == dt.ls - dt.tzinfo.off
\* a <= b and a < b of two aware datetimes
AwareLe(a, b) ==
    Timestamp(a) < Timestamp(b) \/ (Timestamp(a) = Timestamp(b) /\ a.nanos <= b.nanos)
AwareLt(a, b) ==
    Timestamp(a) < Timestamp(b) \/ (Timestamp(a) = Timestamp(b) /\ a.nanos < b.nanos)
\* mutant: the date the datetime reads in the zone it is carried in
record_date_as_carried(record, market_tz) == record.timestamp_et.ls \div 86400
\* line 254: record['timestamp_et'].astimezone(market_tz).date(), in days
record_date(record, market_tz) == WallClock(Timestamp(record.timestamp_et), market_tz) \div 86400
\* trade_date.weekday(): Monday is 0; 1970-01-01 was a Thursday
weekday(trade_date) == (trade_date + 3) % 7

\* lines 266-267: hour, minute = map(int, time_str.split(':'))
parse_hour_minute(time_str) ==
    IF Len(time_str.fields) # 2 THEN Exc("ValueError")
    ELSE IF ~time_str.fields[1].int \/ ~time_str.fields[2].int THEN Exc("ValueError")
    ELSE [type |-> "tuple", hour |-> time_str.fields[1].v, minute |-> time_str.fields[2].v]
\* lines 273-274: datetime.datetime(year, month, day, hour, minute)
naive_datetime(trade_date, hour, minute) ==
    IF hour \notin 0 .. 23 \/ minute \notin 0 .. 59 THEN Exc("ValueError")
    ELSE Datetime(trade_date * 86400 + hour * 3600 + minute * 60, 0, NoTzInfo)

\* mutant: a skipped or repeated wall time is resolved at the standard offset
localize_ib_time_guessing(ib_naive, market_tz) == pytz_localize(ib_naive, market_tz, "False")
\* lines 278-279: market_tz.localize(ib_naive, is_dst=None)
localize_ib_time(ib_naive, market_tz) == pytz_localize(ib_naive, market_tz, "None")

\* mutant: a record at the end of the period belongs to the period
ib_period_records_closed(records_for_day, ib_start_dt_et, ib_end_dt_et) ==
    SelectSeq(records_for_day,
              LAMBDA record : /\ AwareLe(ib_start_dt_et, record.timestamp_et)
                              /\ AwareLe(record.timestamp_et, ib_end_dt_et))
\* lines 285-289: the records of the day in [ib_start_dt_et, ib_end_dt_et)
ib_period_records(records_for_day, ib_start_dt_et, ib_end_dt_et) ==
    SelectSeq(records_for_day,
              LAMBDA record : /\ AwareLe(ib_start_dt_et, record.timestamp_et)
                              /\ AwareLt(record.timestamp_et, ib_end_dt_et))

\* max(...) and min(...) of the prices of a set; ValueError on an empty one
max(prices) ==
    IF prices = {} THEN Exc("ValueError")
    ELSE CHOOSE x \in prices : \A y \in prices : y.v <= x.v
min(prices) ==
    IF prices = {} THEN Exc("ValueError")
    ELSE CHOOSE x \in prices : \A y \in prices : x.v <= y.v


\* mutant: a day without data in the period reports prices of zero
ib_entry_zero_when_empty(ib_start_dt_et, ib_end_dt_et, in_period) ==
    [ type |-> "dict", ib_start_et |-> ib_start_dt_et, ib_end_et |-> ib_end_dt_et,
      ib_high |-> Num(0), ib_low |-> Num(0) ]
\* lines 291-310: the entry of a day, in_period its records in the period
ib_entry(ib_start_dt_et, ib_end_dt_et, in_period) ==
    LET highs == { in_period[i].high : i \in DOMAIN in_period } \ {None, Missing}
        lows == { in_period[i].low : i \in DOMAIN in_period } \ {None, Missing}
    IN  IF in_period = <<>>
        THEN [ type |-> "dict", ib_start_et |-> ib_start_dt_et, ib_end_et |-> ib_end_dt_et,
               ib_high |-> None, ib_low |-> None, message |-> "No data within IB period." ]
        ELSE IF IsExc(max(highs)) THEN max(highs)
        ELSE IF IsExc(min(lows)) THEN min(lows)
        ELSE [ type |-> "dict", ib_start_et |-> ib_start_dt_et, ib_end_et |-> ib_end_dt_et,
               ib_high |-> max(highs), ib_low |-> min(lows) ]

\* lines 260-310: the body of the loop over the dates; the value is the entry
\* daily_ib_data[trade_date], or the exception that leaves the loop
ib_for_date(trade_date, records_for_day, ib_start_time_str, ib_end_time_str, market_tz) ==
    LET ib_start == parse_hour_minute(ib_start_time_str)
        ib_end == parse_hour_minute(ib_end_time_str)
        ib_start_naive == naive_datetime(trade_date, ib_start.hour, ib_start.minute)
        ib_end_naive == naive_datetime(trade_date, ib_end.hour, ib_end.minute)
        ib_start_dt_et == localize_ib_time(ib_start_naive, market_tz)
        ib_end_dt_et == localize_ib_time(ib_end_naive, market_tz)
    IN  IF weekday(trade_date) >= 5
        THEN [type |-> "dict", error |-> "Weekend, IB not calculated."]
        ELSE IF IsExc(ib_start) \/ IsExc(ib_end)
        THEN [type |-> "dict", error |-> "Invalid IB time string format"]
        ELSE IF IsExc(ib_start_naive) THEN ib_start_naive
        ELSE IF IsExc(ib_end_naive) THEN ib_end_naive
        ELSE IF IsExc(ib_start_dt_et) \/ IsExc(ib_end_dt_et)
        THEN [type |-> "dict", error |-> "DST issue for IB time"]
        ELSE ib_entry(ib_start_dt_et, ib_end_dt_et,
                      ib_period_records(records_for_day, ib_start_dt_et, ib_end_dt_et))

\* lines 249-256: the records of processed_data_et grouped under trade_date
records_of_date(processed_data_et, trade_date, market_tz) ==
    SelectSeq(processed_data_et,
              LAMBDA record : /\ record.timestamp_et # None
                              /\ record_date(record, market_tz) = trade_date)

calculate_initial_balance(processed_data_et, ib_start_time_str, ib_end_time_str, market_tz_str) ==
    LET dated == { i \in DOMAIN processed_data_et : processed_data_et[i].timestamp_et # None }
        data_by_date == { record_date(processed_data_et[i], market_tz_str) : i \in dated }
        daily_ib_data ==
            [ trade_date \in data_by_date |->
                  ib_for_date(trade_date,
                              records_of_date(processed_data_et, trade_date, market_tz_str),
                              ib_start_time_str, ib_end_time_str, market_tz_str) ]
    IN  IF processed_data_et = <<>> THEN Dict(<<>>)
        ELSE IF market_tz_str \notin Zones THEN Exc("UnknownTimeZoneError")
        ELSE IF \E d \in data_by_date : IsExc(daily_ib_data[d])
        THEN daily_ib_data[CHOOSE d \in data_by_date : IsExc(daily_ib_data[d])]
        ELSE Dict(daily_ib_data)

\* lines 245-312: the records are read (lines 251, 254, 287, 302, 303) and
\* appended to the lists of data_by_date; none is assigned to
processed_data_et_after(processed_data_et) == processed_data_et

-----------------------------------------------------------------------------
(* src/utils/time_utils.py: market open and close, session windows. *)

\* whenever.Date / datetime.date: days counts the days since 1970-01-01
Date(type, days) == [type |-> type, days |-> days]
\* whenever.Time(h, m, s): tod counts the seconds since midnight
Time(h, m, s) == [type |-> "Time", tod |-> h * 3600 + m * 60 + s, nanos |-> 0]

\* w_date.at(time)
at(w_date, time) ==
    IF time.type # "Time" THEN Exc("TypeError")
    ELSE PlainDateTime(w_date.days * 86400 + time.tod, time.nanos)

\* NY_ZONEINFO.convert(plain, disambiguate='raise')
NY_ZONEINFO_convert(plain) ==
    IF IsExc(plain) THEN plain ELSE assume_tz(plain, NY_ZONEINFO)

\* lines 226-239: the except clauses
get_market_open_close_et_except(e) ==
    [ val |-> <<None, None>>,
      printed |->
          IF e.name \in {"ValueError", "TypeError"}
          THEN "Error creating ZonedDateTime for market open/close"
          ELSE IF e.name \in {"SkippedTime", "RepeatedTime"}
          THEN "Error: DST transition issue for market time"
          ELSE IF e.name = "TimeZoneNotFoundError"
          THEN "Error: Timezone not found"
          ELSE "An unexpected error in get_market_open_close_et" ]

\* mutant: both times are taken at the standard offset of the zone
get_market_open_close_et_standard_time(date_input, open_time, close_time) ==
    IF \/ date_input.type \notin {"date", "whenever.Date"}
       \/ open_time.type # "Time" \/ close_time.type # "Time"
    THEN [val |-> <<None, None>>, printed |-> "nothing"]
    ELSE [ val |-> << ZonedDateTime(date_input.days * 86400 + open_time.tod
                                       - StdOffset(TARGET_TZ_STR), 0, TARGET_TZ_STR),
                      ZonedDateTime(date_input.days * 86400 + close_time.tod
                                       - StdOffset(TARGET_TZ_STR), 0, TARGET_TZ_STR) >>,
           printed |-> "nothing" ]

\* mutant: a time that cannot be built is None, the other one is returned
get_market_open_close_et_each_alone(date_input, open_time, close_time) ==
    LET market_open_et == NY_ZONEINFO_convert(at(date_input, open_time))
        market_close_et == NY_ZONEINFO_convert(at(date_input, close_time))
    IN  IF date_input.type \notin {"date", "whenever.Date"}
        THEN [val |-> <<None, None>>, printed |-> "nothing"]
        ELSE [ val |-> << IF IsExc(market_open_et) THEN None ELSE market_open_et,
                          IF IsExc(market_close_et) THEN None ELSE market_close_et >>,
               printed |-> "nothing" ]

get_market_open_close_et(date_input, open_time, close_time) ==
    IF date_input.type \notin {"date", "whenever.Date"}
    THEN [val |-> <<None, None>>, printed |-> "Error: Invalid date_input type"]
    ELSE LET w_date == date_input
             market_open_et == NY_ZONEINFO_convert(at(w_date, open_time))
             market_close_et == NY_ZONEINFO_convert(at(w_date, close_time))
         IN  IF IsExc(market_open_et)
             THEN get_market_open_close_et_except(market_open_et)
             ELSE IF IsExc(market_close_et)
             THEN get_market_open_close_et_except(market_close_et)
             ELSE Returned(<<market_open_et, market_close_et>>)

\* lines 11-30: the wall times of the sessions
MARKET_OPEN_ET_TIME == Time(9, 30, 0)
IB_END_ET_TIME == Time(10, 30, 0)
ASIAN_KILLZONE_START_TIME == Time(20, 0, 0)
ASIAN_KILLZONE_END_TIME == Time(22, 0, 0)
LONDON_KILLZONE_START_TIME == Time(2, 0, 0)
LONDON_KILLZONE_END_TIME == Time(5, 0, 0)
NY_KILLZONE_START_TIME == Time(7, 0, 0)
NY_KILLZONE_END_TIME == Time(9, 0, 0)
LONDON_CLOSE_KILLZONE_START_TIME == Time(10, 0, 0)
LONDON_CLOSE_KILLZONE_END_TIME == Time(12, 0, 0)

\* dt_object.time(): the wall-clock time of day in the zone of dt_object
time(dt_object) ==
    [ type |-> "Time", tod |-> WallClock(dt_object.secs, dt_object.tz) % 86400,
      nanos |-> dt_object.nanos ]
\* a <= b and a < b of two whenever.Time
TimeLe(a, b) == a.tod < b.tod \/ (a.tod = b.tod /\ a.nanos <= b.nanos)
TimeLt(a, b) == a.tod < b.tod \/ (a.tod = b.tod /\ a.nanos < b.nanos)

\* mutant: the end of the window belongs to the window
is_within_time_window_closed(dt_object, start_time, end_time) ==
    IF dt_object.tz # TARGET_TZ_STR THEN FALSE
    ELSE LET current_obj_time == time(dt_object) IN
         IF TimeLe(start_time, end_time)
         THEN TimeLe(start_time, current_obj_time) /\ TimeLe(current_obj_time, end_time)
         ELSE TimeLe(start_time, current_obj_time) \/ TimeLe(current_obj_time, end_time)

\* mutant: the wall clock of dt_object is compared whatever its zone
is_within_time_window_any_zone(dt_object, start_time, end_time) ==
    LET current_obj_time == time(dt_object) IN
    IF TimeLe(start_time, end_time)
    THEN TimeLe(start_time, current_obj_time) /\ TimeLt(current_obj_time, end_time)
    ELSE TimeLe(start_time, current_obj_time) \/ TimeLt(current_obj_time, end_time)

\* lines 462-493
is_within_time_window(dt_object, start_time, end_time) ==
    IF dt_object.tz # TARGET_TZ_STR THEN FALSE
    ELSE LET current_obj_time == time(dt_object) IN
         IF TimeLe(start_time, end_time)
         THEN TimeLe(start_time, current_obj_time) /\ TimeLt(current_obj_time, end_time)
         ELSE TimeLe(start_time, current_obj_time) \/ TimeLt(current_obj_time, end_time)
\* line 477: the warning printed for a dt_object of another zone
is_within_time_window_warning(dt_object) ==
    IF dt_object.tz # TARGET_TZ_STR
    THEN "Warning: is_within_time_window called with dt_object in incorrect timezone"
    ELSE "nothing"

is_within_initial_balance_period(dt_object) ==
    is_within_time_window(dt_object, MARKET_OPEN_ET_TIME, IB_END_ET_TIME)
is_within_ny_killzone(dt_object) ==
    is_within_time_window(dt_object, NY_KILLZONE_START_TIME, NY_KILLZONE_END_TIME)
is_within_london_killzone(dt_object) ==
    is_within_time_window(dt_object, LONDON_KILLZONE_START_TIME, LONDON_KILLZONE_END_TIME)
is_within_london_close_killzone(dt_object) ==
    is_within_time_window(dt_object, LONDON_CLOSE_KILLZONE_START_TIME,
                          LONDON_CLOSE_KILLZONE_END_TIME)
\* mutant: the Asian session runs overnight, until the London session ends
is_within_asian_killzone_overnight(dt_object) ==
    is_within_time_window(dt_object, ASIAN_KILLZONE_START_TIME, LONDON_KILLZONE_END_TIME)
is_within_asian_killzone(dt_object) ==
    is_within_time_window(dt_object, ASIAN_KILLZONE_START_TIME, ASIAN_KILLZONE_END_TIME)
is_within_macro_time(dt_object, macro_start_time, macro_end_time) ==
    is_within_time_window(dt_object, macro_start_time, macro_end_time)

\* lines 545-635: the price lookups

\* lines 13 and 33
MIDNIGHT_OPEN_ET_TIME == Time(0, 0, 0)
WEEKLY_OPEN_SUNDAY_TIME == Time(18, 0, 0)

\* a pandas DataFrame: the names of its columns and its rows in order
DataFrame(columns, rows) == [type |-> "DataFrame", columns |-> columns, rows |-> rows]
Row(timestamp, open) == [timestamp |-> timestamp, open |-> open]
\* ZonedDateTime == ZonedDateTime: the two are the same instant
ZonedEq(a, b) == a.secs = b.secs /\ a.nanos = b.nanos

\* lines 547-583: _get_price_at_time(target_dt, ohlc_data_frame)
get_price_at_time(target_dt, ohlc_data_frame) ==
    IF target_dt.type # "ZonedDateTime"
    THEN Failed("Error (_get_price_at_time): target_dt must be a whenever.ZonedDateTime")
    ELSE IF ~({"timestamp", "open"} \subseteq ohlc_data_frame.columns)
    THEN Failed("Error (_get_price_at_time): ohlc_data_frame must contain 'timestamp' and 'open' columns")
    ELSE LET match == SelectSeq(ohlc_data_frame.rows,
                                LAMBDA row : ZonedEq(row.timestamp, target_dt))
         IN  IF match # <<>>
             THEN [ val |-> match[1].open,
                    printed |-> IF Len(match) > 1
                                THEN "Warning (_get_price_at_time): Multiple records found"
                                ELSE "nothing" ]
             ELSE Returned(None)

\* the lookup at wall_time of date w_date; an exception raised by
\* NY_ZONEINFO.convert leaves the caller
price_at(w_date, wall_time, ohlc_data_frame) ==
    LET target_dt == NY_ZONEINFO_convert(at(w_date, wall_time))
    IN  IF IsExc(target_dt) THEN Returned(target_dt)
        ELSE get_price_at_time(target_dt, ohlc_data_frame)

\* lines 585-600
get_midnight_open_price_for_day(target_date, ohlc_data_frame) ==
    IF target_date.type # "whenever.Date"
    THEN Failed("Error (get_midnight_open_price_for_day): target_date must be a whenever.Date")
    ELSE price_at(target_date, MIDNIGHT_OPEN_ET_TIME, ohlc_data_frame)

\* lines 602-614
get_nyse_open_price_for_day(target_date, ohlc_data_frame) ==
    IF target_date.type # "whenever.Date"
    THEN Failed("Error (get_nyse_open_price_for_day): target_date must be a whenever.Date")
    ELSE price_at(target_date, MARKET_OPEN_ET_TIME, ohlc_data_frame)

\* mutant: a Sunday looks back to the Sunday of the week before
previous_sunday(target_date) ==
    Date(target_date.type, target_date.days - 1 - ((weekday(target_date.days - 1) + 1) % 7))
\* line 632: target_date.previous_or_same(whenever.Weekday.SUNDAY)
previous_or_same_sunday(target_date) ==
    Date(target_date.type, target_date.days - ((weekday(target_date.days) + 1) % 7))

\* lines 616-635
get_weekly_open_price_for_week(target_date, ohlc_data_frame) ==
    IF target_date.type # "whenever.Date"
    THEN Failed("Error (get_weekly_open_price_for_week): target_date must be a whenever.Date")
    ELSE LET sunday_date == previous_or_same_sunday(target_date)
         IN  price_at(sunday_date, WEEKLY_OPEN_SUNDAY_TIME, ohlc_data_frame)

-----------------------------------------------------------------------------
(* The inputs the calls are made with. *)

\* civil times around the transitions of 2023-2024 and on a summer day:
\* America/New_York skips 2024-03-10 02:00-03:00 and repeats 2023-11-05
\* 01:00-02:00; Europe/London repeats 2023-10-29 01:00-02:00 and skips
\* 2024-03-31 01:00-02:00
CivilAnchors ==
    { LocalSecs(2024, 3, 10, 1, 0, 0), LocalSecs(2023, 11, 5, 0, 30, 0),
      LocalSecs(2023, 10, 29, 0, 30, 0), LocalSecs(2024, 3, 31, 0, 30, 0),
      LocalSecs(2023, 8, 15, 13, 0, 0) }
CivilTimes == { a + 1800 * k : a \in CivilAnchors, k \in 0 .. MaxSteps }
SubSeconds == {0, 500000000}

\* values of original_tz_str: absent, empty, known zones, an unknown zone
TzArgs == {NoTz, "", "America/New_York", "Europe/London", "UTC", "Mars/Olympus"}

InstantInputs == { Instant(t, n) : t \in CivilTimes, n \in SubSeconds }
ZonedInputs == { ZonedDateTime(t, n, z) : t \in CivilTimes, n \in SubSeconds, z \in Zones }
PlainInputs == { PlainDateTime(c, 0) : c \in CivilTimes }
NaiveDatetimeInputs == { Datetime(c, 0, NoTzInfo) : c \in CivilTimes }
AwareDatetimeInputs ==
    { Datetime(c, 0, FixedTz(o)) : c \in CivilTimes, o \in {0, 7200, -14400} }
    \cup { Datetime(WallClock(t, z), 0, ZoneInfoTz(z, UtcOffset(z, t))) :
             t \in CivilTimes, z \in Zones }
    \cup { Datetime(WallClock(t, z), 0, PytzTz(z, UtcOffset(z, t))) :
             t \in CivilTimes, z \in Zones }
\* 1678624200 is the timestamp of the tests: 2023-03-12 08:30 EDT
EpochSeconds == ((-MaxEpochSecs) .. MaxEpochSecs) \cup {1678624200}
EpochInputs ==
    { Number("float", n, h, "finite") : n \in EpochSeconds, h \in {0, 1} }
    \cup { Number("int", n, 0, "finite") : n \in EpochSeconds }
NonFiniteInputs == { Number("float", 0, 0, "nan"), Number("float", 0, 0, "inf") }

ZoneWords ==
    { WordTok("Europe/London", <<"Europe", "London">>),
      WordTok("America/New_York", <<"America", "New_York">>),
      WordTok("Mars/Olympus", <<"Mars", "Olympus">>) }
Midnight(c) == c - (c % 86400)
\* "2023-10-25 09:30:00"
NaiveStr(c) == Str(<<DateTok(Midnight(c)), TimeTok(c % 86400)>>)
NaiveStrings ==
    { NaiveStr(c) : c \in CivilTimes }
    \cup { Str(<<IsoTok(c)>>) : c \in CivilTimes }
    \cup { Str(<<TimeTok(c % 86400), SlashDateTok(Midnight(c))>>) : c \in CivilTimes }
\* "2023-10-25 10:00:00 Europe/London" and "2023-10-25T10:00:00 Europe/London"
ZoneStrings ==
    { Str(<<DateTok(Midnight(c)), TimeTok(c % 86400), w>>) : c \in CivilTimes, w \in ZoneWords }
    \cup { Str(<<IsoTok(c), w>>) : c \in CivilTimes, w \in ZoneWords }
OffsetStrings ==
    { Str(<<IsoZTok(c)>>) : c \in CivilTimes }
    \cup { Str(<<IsoOffTok(c, o)>>) : c \in CivilTimes, o \in {7200, -14400} }
OtherStrings == { Str(<<WordTok("hello", <<"hello">>)>>) }
StringInputs == NaiveStrings \cup ZoneStrings \cup OffsetStrings \cup OtherStrings
OtherInputs == { None, [type |-> "list"] }

Inputs ==
    InstantInputs \cup ZonedInputs \cup PlainInputs \cup NaiveDatetimeInputs
    \cup AwareDatetimeInputs \cup EpochInputs \cup NonFiniteInputs
    \cup StringInputs \cup OtherInputs

\* the timestamps of the records given to process_data_timestamps
RecordCivilTimes == { a + 3600 : a \in CivilAnchors }
RecordTimestamps ==
    { NaiveStr(c) : c \in RecordCivilTimes }
    \cup { Datetime(c, 0, NoTzInfo) : c \in RecordCivilTimes }
    \cup { Str(<<DateTok(Midnight(c)), TimeTok(c % 86400),
                 WordTok("Europe/London", <<"Europe", "London">>)>>) : c \in RecordCivilTimes }
    \cup { Str(<<IsoTok(c), WordTok("Europe/London", <<"Europe", "London">>)>>) :
             c \in RecordCivilTimes }
    \cup { Number("float", n, h, "finite") : n \in (-MaxEpochSecs) .. MaxEpochSecs, h \in {0, 1} }
    \cup { Number("int", 1678624200, 0, "finite"),
           Str(<<IsoZTok(LocalSecs(2023, 8, 15, 13, 30, 0))>>),
           Str(<<DateTok(LocalSecs(2023, 8, 15, 0, 0, 0)), TimeTok(15 * 3600),
                 WordTok("Mars/Olympus", <<"Mars", "Olympus">>)>>),
           Datetime(LocalSecs(2023, 11, 5, 5, 30, 0), 0, PytzTz("UTC", 0)),
           PlainDateTime(LocalSecs(2023, 8, 15, 15, 30, 0), 0),
           Str(<<WordTok("hello", <<"hello">>)>>),
           None }
Records == { [timestamp |-> x] : x \in RecordTimestamps }
RECURSIVE Batches(_)
\* the lists of at most n records
Batches(n) ==
    IF n = 0 THEN { <<>> }
    ELSE Batches(n - 1)
         \cup { Append(b, r) : b \in { b \in Batches(n - 1) : Len(b) = n - 1 }, r \in Records }
DefaultTzArgs == {"America/New_York", "UTC", "Europe/London", "Mars/Olympus", NoTz}

\* dates given to get_market_open_close_et: a summer and a winter day, and the
\* days on which America/New_York changes its clocks
MarketDates ==
    { DaysFromCivil(2023, 8, 15), DaysFromCivil(2023, 11, 6), DaysFromCivil(2023, 10, 10),
      DaysFromCivil(2024, 3, 10), DaysFromCivil(2023, 11, 5) }
DateInputs ==
    { Date(k, d) : k \in {"whenever.Date", "date"}, d \in MarketDates }
    \cup { Datetime(LocalSecs(2023, 8, 15, 0, 0, 0), 0, NoTzInfo), None }
\* 01:30 is repeated on 2023-11-05 and 02:30 is skipped on 2024-03-10
MarketTimes ==
    { Time(9, 30, 0), Time(16, 0, 0), Time(8, 0, 0), Time(14, 30, 0),
      Time(1, 30, 0), Time(2, 30, 0) }
TimeInputs == MarketTimes \cup { [type |-> "str"] }

\* wall times of 2023-08-15 in America/New_York at which a session starts or
\* ends, the second before each, and the ends of the day
SessionBounds ==
    << Time(9, 30, 0), Time(10, 30, 0), Time(20, 0, 0), Time(22, 0, 0), Time(5, 0, 0),
       Time(2, 0, 0), Time(7, 0, 0), Time(9, 0, 0), Time(10, 0, 0), Time(12, 0, 0) >>
WindowClockTimes ==
    { SessionBounds[i].tod - d : i \in DOMAIN SessionBounds, d \in {0, 1} }
    \cup { 0, 86399 }
\* the instants given to the window checks, expressed in the target zone and
\* in two other zones
WindowInstants ==
    { ZonedDateTime(LocalSecs(2023, 8, 15, 0, 0, 0) + c + 4 * 3600, n, z) :
          c \in WindowClockTimes, n \in SubSeconds,
          z \in {"America/New_York", "Europe/London", "UTC"} }
WindowTimes == { SessionBounds[i] : i \in 1 .. 5 }

\* a datetime localized in America/New_York, as the tests build their records
EtDatetime(y, m, d, h, mi, sec) ==
    pytz_localize(Datetime(LocalSecs(y, m, d, h, mi, sec), 0, NoTzInfo), "America/New_York", "None")
\* records of Tuesday 2023-08-15 around the periods 09:30-10:30 and 10:00-11:00,
\* of Saturday 2023-10-28, of Friday 2023-04-28 and of Thursday 2023-10-26, a
\* record without prices, a record carried in UTC (01:00 on 2023-08-16, which
\* is 21:00 on 2023-08-15 in America/New_York) and a record whose timestamp
\* failed
Bars ==
    { Bar(EtDatetime(2023, 8, 15, 9, 29, 59), Num(110), Num(90)),
      Bar(EtDatetime(2023, 8, 15, 9, 30, 0), Num(101), Num(100)),
      Bar(EtDatetime(2023, 8, 15, 10, 0, 0), Num(103), Num(101)),
      Bar(EtDatetime(2023, 8, 15, 10, 29, 59), Num(102), Num(99)),
      Bar(EtDatetime(2023, 8, 15, 10, 30, 0), Num(120), Num(80)),
      Bar(EtDatetime(2023, 8, 15, 11, 0, 0), Num(130), Num(70)),
      Bar(EtDatetime(2023, 8, 15, 9, 45, 0), None, Missing),
      Bar(EtDatetime(2023, 10, 28, 9, 30, 0), Num(100), Num(99)),
      Bar(EtDatetime(2023, 4, 28, 9, 30, 0), Num(100), Num(99)),
      Bar(EtDatetime(2023, 10, 26, 10, 0, 0), Num(100), Num(99)),
      Bar(Datetime(LocalSecs(2023, 8, 16, 1, 0, 0), 0, PytzTz("UTC", 0)), Num(140), Num(60)),
      Bar(None, Num(100), Num(99)) }
\* the lists of at most n of these records
RECURSIVE BarBatches(_)
BarBatches(n) ==
    IF n = 0 THEN { <<>> }
    ELSE BarBatches(n - 1)
         \cup { Append(b, r) : b \in { b \in BarBatches(n - 1) : Len(b) = n - 1 }, r \in Bars }
HHMM(txt, h, m) == TimeStr(txt, <<Field(h), Field(m)>>)
\* ib_start_time_str, ib_end_time_str: the default and a custom period, a
\* period running past midnight, 00:30 (skipped in Africa/Cairo on 2023-04-28),
\* 23:30 (repeated there on 2023-10-26), and text that is no wall time
IbTimes ==
    { <<HHMM("09:30", 9, 30), HHMM("10:30", 10, 30)>>,
      <<HHMM("10:00", 10, 0), HHMM("11:00", 11, 0)>>,
      <<HHMM("10:30", 10, 30), HHMM("09:30", 9, 30)>>,
      <<HHMM("00:30", 0, 30), HHMM("10:30", 10, 30)>>,
      <<HHMM("09:30", 9, 30), HHMM("23:30", 23, 30)>>,
      <<TimeStr("0930", <<Field(930)>>), HHMM("10:30", 10, 30)>>,
      <<HHMM("09:30", 9, 30), TimeStr("ab:cd", <<NotAnInt, NotAnInt>>)>>,
      <<HHMM("25:00", 25, 0), HHMM("10:30", 10, 30)>>,
      <<HHMM("09:30", 9, 30), HHMM("10:60", 10, 60)>> }
MarketTzArgs == {"America/New_York", "Africa/Cairo"}

\* target_date of the price lookups: the week of the example (Sunday 2024-01-07
\* to Sunday 2024-01-14), the days around the Sunday on which the clocks go
\* forward, a datetime.date and None
LookupDates ==
    { Date("whenever.Date", DaysFromCivil(2024, 1, 7) + k) : k \in 0 .. 7 }
    \cup { Date("whenever.Date", DaysFromCivil(2024, 3, 9) + k) : k \in 0 .. 2 }
    \cup { Date("date", DaysFromCivil(2024, 1, 8)), None }
NyInstant(y, m, d, h, mi) ==
    to_tz(ZonedDateTime(CHOOSE t \in Candidates(LocalSecs(y, m, d, h, mi, 0), NY_ZONEINFO) : TRUE,
                        0, "UTC"), NY_ZONEINFO)
\* rows of the example frame, a second row at Sunday 18:00 with another price,
\* the same instant carried in UTC, and the Sunday of the clock change
Rows ==
    { Row(NyInstant(2024, 1, 7, 18, 0), Num(100)),
      Row(NyInstant(2024, 1, 7, 18, 0), Num(200)),
      Row(ZonedDateTime(LocalSecs(2024, 1, 7, 23, 0, 0), 0, "UTC"), Num(300)),
      Row(NyInstant(2024, 1, 7, 18, 1), Num(101)),
      Row(NyInstant(2024, 1, 8, 0, 0), Num(102)),
      Row(NyInstant(2024, 1, 8, 9, 29), Num(103)),
      Row(NyInstant(2024, 1, 8, 9, 30), Num(104)),
      Row(NyInstant(2024, 1, 14, 18, 0), Num(105)),
      Row(NyInstant(2024, 3, 10, 18, 0), Num(106)) }
RECURSIVE RowLists(_)
RowLists(n) ==
    IF n = 0 THEN { <<>> }
    ELSE RowLists(n - 1)
         \cup { Append(b, r) : b \in { b \in RowLists(n - 1) : Len(b) = n - 1 }, r \in Rows }
\* frames with the columns of the example, and one without the 'open' column
Frames ==
    { DataFrame({"timestamp", "open", "high", "low", "close"}, rows) : rows \in RowLists(MaxBatch) }
    \cup { DataFrame({"timestamp", "close"}, <<>>) }
\* target_dt given to _get_price_at_time
LookupInstants ==
    { r.timestamp : r \in Rows } \cup { NyInstant(2024, 1, 8, 9, 31), PlainDateTime(LocalSecs(2024, 1, 7, 18, 0, 0), 0), None }

-----------------------------------------------------------------------------
(* The state machine: calls made one after the other. *)

Init ==
    /\ pc = "idle"
    /\ op = "none"
    /\ arg_input = None
    /\ arg_tz = NoTz
    /\ arg_start = None
    /\ arg_end = None
    /\ arg_market_tz = NoTz
    /\ ret = None
    /\ printed = "nothing"
    /\ arg_raw_data = <<>>
    /\ arg_default_tz = NoTz
    /\ processed_data = <<>>
    /\ arg_ohlc_data_frame = None
    /\ input_after = <<>>

\* convert_to_et(x, tz)
ConvertToEt ==
    /\ pc = "idle"
    /\ \E x \in Inputs, tz \in TzArgs :
          /\ arg_input' = x
          /\ arg_tz' = tz
          /\ LET out == convert_to_et(x, tz)
             IN  ret' = out.val /\ printed' = out.printed
    /\ pc' = "returned"
    /\ op' = "convert_to_et"
    /\ UNCHANGED <<arg_ohlc_data_frame, input_after, arg_start, arg_end, arg_market_tz,
                   arg_raw_data, arg_default_tz, processed_data>>

\* convert_to_et(r), r the ZonedDateTime the previous call returned
ConvertToEtAgain ==
    /\ pc = "returned"
    /\ op = "convert_to_et"
    /\ ret.type = "ZonedDateTime"
    /\ op' = "convert_to_et_again"
    /\ arg_input' = ret
    /\ arg_tz' = NoTz
    /\ LET out == convert_to_et(ret, NoTz)
       IN  ret' = out.val /\ printed' = out.printed
    /\ UNCHANGED <<arg_ohlc_data_frame, input_after, pc, arg_start, arg_end, arg_market_tz,
                   arg_raw_data, arg_default_tz, processed_data>>

\* calculate_initial_balance(processed_data_et, ib_start_time_str,
\* ib_end_time_str, market_tz_str)
CalculateInitialBalance ==
    /\ pc = "idle"
    /\ \E processed_data_et \in BarBatches(MaxBatch), ib \in IbTimes,
          market_tz_str \in MarketTzArgs :
          /\ arg_input' = processed_data_et
          /\ arg_start' = ib[1]
          /\ arg_end' = ib[2]
          /\ arg_market_tz' = market_tz_str
          /\ ret' = calculate_initial_balance(processed_data_et, ib[1], ib[2], market_tz_str)
          /\ input_after' = processed_data_et_after(processed_data_et)
    /\ pc' = "returned"
    /\ op' = "calculate_initial_balance"
    /\ UNCHANGED <<arg_ohlc_data_frame, arg_tz, printed, arg_raw_data, arg_default_tz, processed_data>>

\* get_market_open_close_et(date_input, open_time, close_time)
GetMarketOpenCloseEt ==
    /\ pc = "idle"
    /\ \E date_input \in DateInputs, open_time \in TimeInputs, close_time \in TimeInputs :
          /\ arg_input' = date_input
          /\ arg_start' = open_time
          /\ arg_end' = close_time
          /\ LET out == get_market_open_close_et(date_input, open_time, close_time)
             IN  ret' = Tuple(out.val) /\ printed' = out.printed
    /\ pc' = "returned"
    /\ op' = "get_market_open_close_et"
    /\ UNCHANGED <<arg_ohlc_data_frame, input_after, arg_tz, arg_market_tz, arg_raw_data, arg_default_tz, processed_data>>

IsWithinTimeWindow ==
    /\ pc = "idle"
    /\ \E dt_object \in WindowInstants, start_time \in WindowTimes, end_time \in WindowTimes :
          /\ arg_input' = dt_object
          /\ arg_start' = start_time
          /\ arg_end' = end_time
          /\ ret' = Bool(is_within_time_window(dt_object, start_time, end_time))
          /\ printed' = is_within_time_window_warning(dt_object)
    /\ pc' = "returned"
    /\ op' = "is_within_time_window"
    /\ UNCHANGED <<arg_ohlc_data_frame, input_after, arg_tz, arg_market_tz, arg_raw_data, arg_default_tz, processed_data>>

IsWithinInitialBalancePeriod ==
    /\ pc = "idle"
    /\ \E dt_object \in WindowInstants :
          /\ arg_input' = dt_object
          /\ ret' = Bool(is_within_initial_balance_period(dt_object))
          /\ printed' = is_within_time_window_warning(dt_object)
    /\ pc' = "returned"
    /\ op' = "is_within_initial_balance_period"
    /\ UNCHANGED <<arg_ohlc_data_frame, input_after, arg_tz, arg_start, arg_end, arg_market_tz,
                   arg_raw_data, arg_default_tz, processed_data>>

IsWithinNyKillzone ==
    /\ pc = "idle"
    /\ \E dt_object \in WindowInstants :
          /\ arg_input' = dt_object
          /\ ret' = Bool(is_within_ny_killzone(dt_object))
          /\ printed' = is_within_time_window_warning(dt_object)
    /\ pc' = "returned"
    /\ op' = "is_within_ny_killzone"
    /\ UNCHANGED <<arg_ohlc_data_frame, input_after, arg_tz, arg_start, arg_end, arg_market_tz,
                   arg_raw_data, arg_default_tz, processed_data>>

IsWithinLondonKillzone ==
    /\ pc = "idle"
    /\ \E dt_object \in WindowInstants :
          /\ arg_input' = dt_object
          /\ ret' = Bool(is_within_london_killzone(dt_object))
          /\ printed' = is_within_time_window_warning(dt_object)
    /\ pc' = "returned"
    /\ op' = "is_within_london_killzone"
    /\ UNCHANGED <<arg_ohlc_data_frame, input_after, arg_tz, arg_start, arg_end, arg_market_tz,
                   arg_raw_data, arg_default_tz, processed_data>>

IsWithinLondonCloseKillzone ==
    /\ pc = "idle"
    /\ \E dt_object \in WindowInstants :
          /\ arg_input' = dt_object
          /\ ret' = Bool(is_within_london_close_killzone(dt_object))
          /\ printed' = is_within_time_window_warning(dt_object)
    /\ pc' = "returned"
    /\ op' = "is_within_london_close_killzone"
    /\ UNCHANGED <<arg_ohlc_data_frame, input_after, arg_tz, arg_start, arg_end, arg_market_tz,
                   arg_raw_data, arg_default_tz, processed_data>>

IsWithinAsianKillzone ==
    /\ pc = "idle"
    /\ \E dt_object \in WindowInstants :
          /\ arg_input' = dt_object
          /\ ret' = Bool(is_within_asian_killzone(dt_object))
          /\ printed' = is_within_time_window_warning(dt_object)
    /\ pc' = "returned"
    /\ op' = "is_within_asian_killzone"
    /\ UNCHANGED <<arg_ohlc_data_frame, input_after, arg_tz, arg_start, arg_end, arg_market_tz,
                   arg_raw_data, arg_default_tz, processed_data>>

IsWithinMacroTime ==
    /\ pc = "idle"
    /\ \E dt_object \in WindowInstants, macro_start_time \in WindowTimes, macro_end_time \in WindowTimes :
          /\ arg_input' = dt_object
          /\ arg_start' = macro_start_time
          /\ arg_end' = macro_end_time
          /\ ret' = Bool(is_within_macro_time(dt_object, macro_start_time, macro_end_time))
          /\ printed' = is_within_time_window_warning(dt_object)
    /\ pc' = "returned"
    /\ op' = "is_within_macro_time"
    /\ UNCHANGED <<arg_ohlc_data_frame, input_after, arg_tz, arg_market_tz, arg_raw_data, arg_default_tz, processed_data>>

\* process_data_timestamps(raw_data, default_original_tz)
ProcessDataTimestamps ==
    /\ pc = "idle"
    /\ \E raw_data \in Batches(MaxBatch), default_original_tz \in DefaultTzArgs :
          /\ arg_raw_data' = raw_data
          /\ arg_default_tz' = default_original_tz
          /\ processed_data' = process_data_timestamps(raw_data, default_original_tz)
          /\ input_after' = raw_data_after(raw_data, default_original_tz)
    /\ pc' = "returned"
    /\ op' = "process_data_timestamps"
    /\ UNCHANGED <<arg_ohlc_data_frame, arg_input, arg_tz, arg_start, arg_end, arg_market_tz, ret, printed>>

GetPriceAtTime ==
    /\ pc = "idle"
    /\ \E target_dt \in LookupInstants, ohlc_data_frame \in Frames :
          /\ arg_input' = target_dt
          /\ arg_ohlc_data_frame' = ohlc_data_frame
          /\ LET out == get_price_at_time(target_dt, ohlc_data_frame)
             IN  ret' = out.val /\ printed' = out.printed
    /\ pc' = "returned"
    /\ op' = "_get_price_at_time"
    /\ UNCHANGED <<input_after, arg_tz, arg_start, arg_end, arg_market_tz, arg_raw_data, arg_default_tz, processed_data>>

GetMidnightOpenPriceForDay ==
    /\ pc = "idle"
    /\ \E target_date \in LookupDates, ohlc_data_frame \in Frames :
          /\ arg_input' = target_date
          /\ arg_ohlc_data_frame' = ohlc_data_frame
          /\ LET out == get_midnight_open_price_for_day(target_date, ohlc_data_frame)
             IN  ret' = out.val /\ printed' = out.printed
    /\ pc' = "returned"
    /\ op' = "get_midnight_open_price_for_day"
    /\ UNCHANGED <<input_after, arg_tz, arg_start, arg_end, arg_market_tz, arg_raw_data, arg_default_tz, processed_data>>

GetNyseOpenPriceForDay ==
    /\ pc = "idle"
    /\ \E target_date \in LookupDates, ohlc_data_frame \in Frames :
          /\ arg_input' = target_date
          /\ arg_ohlc_data_frame' = ohlc_data_frame
          /\ LET out == get_nyse_open_price_for_day(target_date, ohlc_data_frame)
             IN  ret' = out.val /\ printed' = out.printed
    /\ pc' = "returned"
    /\ op' = "get_nyse_open_price_for_day"
    /\ UNCHANGED <<input_after, arg_tz, arg_start, arg_end, arg_market_tz, arg_raw_data, arg_default_tz, processed_data>>

GetWeeklyOpenPriceForWeek ==
    /\ pc = "idle"
    /\ \E target_date \in LookupDates, ohlc_data_frame \in Frames :
          /\ arg_input' = target_date
          /\ arg_ohlc_data_frame' = ohlc_data_frame
          /\ LET out == get_weekly_open_price_for_week(target_date, ohlc_data_frame)
             IN  ret' = out.val /\ printed' = out.printed
    /\ pc' = "returned"
    /\ op' = "get_weekly_open_price_for_week"
    /\ UNCHANGED <<input_after, arg_tz, arg_start, arg_end, arg_market_tz, arg_raw_data, arg_default_tz, processed_data>>

\* the caller goes on to its next call
NextCall ==
    /\ pc = "returned"
    /\ pc' = "idle"
    /\ op' = "none"
    /\ arg_input' = None
    /\ arg_tz' = NoTz
    /\ arg_start' = None
    /\ arg_end' = None
    /\ arg_market_tz' = NoTz
    /\ ret' = None
    /\ printed' = "nothing"
    /\ arg_raw_data' = <<>>
    /\ arg_default_tz' = NoTz
    /\ processed_data' = <<>>
    /\ arg_ohlc_data_frame' = None
    /\ input_after' = <<>>

Next ==
    \/ ConvertToEt
    \/ ConvertToEtAgain
    \/ ProcessDataTimestamps
    \/ GetMarketOpenCloseEt
    \/ IsWithinTimeWindow
    \/ IsWithinInitialBalancePeriod
    \/ IsWithinNyKillzone
    \/ IsWithinLondonKillzone
    \/ IsWithinLondonCloseKillzone
    \/ IsWithinAsianKillzone
    \/ IsWithinMacroTime
    \/ CalculateInitialBalance
    \/ GetPriceAtTime
    \/ GetMidnightOpenPriceForDay
    \/ GetNyseOpenPriceForDay
    \/ GetWeeklyOpenPriceForWeek
    \/ NextCall

Spec == Init /\ [][Next]_vars

-----------------------------------------------------------------------------
(* Properties. *)

IsCall == op \in {"convert_to_et", "convert_to_et_again"}
Failure == ret = None
InTargetZone(r) == r.type = "ZonedDateTime" /\ r.tz = "America/New_York"
\* a zone-free civil date-time given as an object
IsCivilObject(x) ==
    x.type = "PlainDateTime" \/ (x.type = "datetime" /\ x.tzinfo = NoTzInfo)
\* the civil time ls is neither skipped nor repeated in zone z
Unique(ls, z) == Cardinality(Candidates(ls, z)) = 1
\* the civil date-time the date parser reads in a naive string
CivilOf(s) == pd_to_datetime(s.parts).ls

\* C1: a zone-free civil date-time c (PlainDateTime or naive datetime) with a
\* known source zone z in which c is neither skipped nor repeated converts to
\* the instant whose wall clock in z reads c, expressed in America/New_York
C1_CivilWithZoneConverts ==
    (op = "convert_to_et" /\ IsCivilObject(arg_input) /\ arg_tz \in Zones
        /\ Unique(arg_input.ls, arg_tz))
    => (InTargetZone(ret) /\ WallClock(ret.secs, arg_tz) = arg_input.ls)

\* C2: a zone-free civil date-time (PlainDateTime or naive datetime) given with
\* no source zone (None or "") yields the failure value, never an instant
C2_CivilWithoutZoneFails ==
    (op = "convert_to_et" /\ IsCivilObject(arg_input) /\ ~Truthy(arg_tz))
    => Failure
C2_Witness ==
    /\ op = "convert_to_et"
    /\ arg_input = Datetime(LocalSecs(2023, 8, 15, 15, 30, 0), 0, NoTzInfo)
    /\ arg_tz = NoTz
    /\ ret = None

FailureCause(x, tz) ==
    IF x.type = "list" THEN "UnsupportedInputType"
    ELSE IF ~(x.type = "datetime" /\ x.tzinfo = NoTzInfo) THEN "none"
    ELSE IF ~Truthy(tz) THEN "AmbiguousConversion"
    ELSE IF tz \notin Zones THEN "UnknownTimeZone"
    ELSE IF Candidates(x.ls, tz) = {} THEN "NonExistentLocalTime"
    ELSE IF Cardinality(Candidates(x.ls, tz)) = 2 THEN "AmbiguousLocalTime"
    ELSE "none"
\* the diagnostic the code prints for a cause
Diagnostic(cause) ==
    CASE cause = "UnsupportedInputType" -> "Error: Unsupported timestamp input type"
      [] cause = "AmbiguousConversion" ->
             "Error: Naive Python datetime provided without original_tz_str"
      [] cause = "UnknownTimeZone" -> "Error: Timezone not found"
      [] OTHER -> "Error: DST transition issue"

C7_AbsoluteInputKeepsInstant ==
    /\ (op = "convert_to_et" /\ arg_input.type \in {"Instant", "ZonedDateTime"})
       => /\ InTargetZone(ret)
          /\ ret.secs = arg_input.secs
          /\ ret.nanos = arg_input.nanos
    /\ op = "convert_to_et_again" => ret = arg_input
C7_Witness ==
    /\ op = "convert_to_et"
    /\ arg_input = ZonedDateTime(LocalSecs(2023, 8, 15, 14, 30, 0), 500000000,
                                 "Europe/London")
    /\ ret = ZonedDateTime(LocalSecs(2023, 8, 15, 14, 30, 0), 500000000,
                           "America/New_York")
    /\ Hour(WallClock(ret.secs, "America/New_York")) = 10

\* trunc(n) of a finite number
Trunc(x) == IF x.floor < 0 /\ x.half = 1 THEN x.floor + 1 ELSE x.floor
IsEpochNumber(x) == x.type \in {"int", "float"} /\ x.cls = "finite"

\* C8: a finite epoch number n converts to the instant trunc(n) whole seconds
\* after 1970-01-01T00:00:00 UTC with no sub-second part, given to
\* convert_to_et or carried by a record through process_data_timestamps
C8_EpochTruncatesOnBothPaths ==
    /\ (op = "convert_to_et" /\ IsEpochNumber(arg_input))
       => ret = ZonedDateTime(Trunc(arg_input), 0, "America/New_York")
    /\ op = "process_data_timestamps"
       => \A i \in DOMAIN arg_raw_data :
             IsEpochNumber(arg_raw_data[i].timestamp)
             => processed_data[i].timestamp_et =
                    ZonedDateTime(Trunc(arg_raw_data[i].timestamp), 0, "America/New_York")

\* the final token of s is recognized as a zone name
Recognized(s) ==
    /\ Len(s.parts) > 1
    /\ Len(Last(s.parts).segs) > 1
    /\ ~IsDigit(Last(s.parts).segs[1])
    /\ Last(s.parts).txt \in Zones
\* the civil time c, with sub-second part n, resolved in zone z
Resolved(c, n, z) ==
    IF Unique(c, z)
    THEN ZonedDateTime(CHOOSE t \in Candidates(c, z) : TRUE, n, "America/New_York")
    ELSE None
\* what the claim expects of the naive string s under the default zone tz
ExpectedOfString(s, tz) ==
    IF Recognized(s)
    THEN Resolved(pd_to_datetime(ButLast(s.parts)).ls, 0, Last(s.parts).txt)
    ELSE Resolved(CivilOf(s), 0, tz)

\* C9: a string whose final token is recognized as a zone name is resolved in
\* that zone whatever the default zone, a string without one in the default
\* zone, with the same result from convert_to_et and process_data_timestamps
C9_ZoneTokenOverridesOnBothPaths ==
    /\ (op = "convert_to_et" /\ arg_input \in NaiveStrings \cup ZoneStrings
           /\ (Recognized(arg_input) \/ arg_input \in NaiveStrings)
           /\ arg_tz \in Zones)
       => ret = ExpectedOfString(arg_input, arg_tz)
    /\ (op = "process_data_timestamps" /\ arg_default_tz \in Zones)
       => \A i \in DOMAIN arg_raw_data :
             LET s == arg_raw_data[i].timestamp IN
             (s.type = "str" /\ (Recognized(s) \/ s \in NaiveStrings))
             => /\ processed_data[i].timestamp_et = ExpectedOfString(s, arg_default_tz)
                /\ processed_data[i].timestamp_et = convert_to_et(s, arg_default_tz).val

CivilAt(d, t) == d.days * 86400 + t.tod
IsDateAndTimes ==
    /\ op = "get_market_open_close_et"
    /\ arg_input.type \in {"date", "whenever.Date"}
    /\ arg_start.type = "Time"
    /\ arg_end.type = "Time"

InGap(d, t) == Candidates(CivilAt(d, t), "America/New_York") = {}
\* C12 as claimed: with a valid date, get_market_open_close_et fails only when
\* the open or the close time is in the spring-forward gap of that date
C12_FailsOnlyInGap ==
    IsDateAndTimes
    => (ret.items = <<None, None>> <=> (InGap(arg_input, arg_start) \/ InGap(arg_input, arg_end)))
\* C12 amended: with a valid date, get_market_open_close_et fails exactly when
\* the open or the close time is skipped (spring-forward gap) or repeated
\* (fall-back overlap) on that date, and then neither instant is returned
C12_FailsInGapOrOverlap ==
    IsDateAndTimes
    => /\ ret.items = <<None, None>>
          <=> (~Unique(CivilAt(arg_input, arg_start), "America/New_York")
               \/ ~Unique(CivilAt(arg_input, arg_end), "America/New_York"))
       /\ ret.items # <<None, None>> => (ret.items[1] # None /\ ret.items[2] # None)
C12_Witness ==
    /\ IsDateAndTimes
    /\ arg_input = Date("date", DaysFromCivil(2023, 11, 5))
    /\ arg_start = Time(1, 30, 0)
    /\ arg_end = Time(16, 0, 0)
    /\ Cardinality(Candidates(CivilAt(arg_input, arg_start), "America/New_York")) = 2
    /\ ret.items = <<None, None>>
    /\ printed = "Error: DST transition issue for market time"

\* the time of day, in seconds, that the wall clock of America/New_York shows
\* at the instant t
TargetTimeOfDay(t) == WallClock(t.secs, "America/New_York") % 86400
\* membership of the time of day c in the half-open window [s, e), which runs
\* past midnight when s > e
InWindow(c, s, e) == IF s <= e THEN s <= c /\ c < e ELSE c >= s \/ c < e

\* C13: for an instant expressed in America/New_York, is_within_time_window is
\* true exactly when its time of day is in [start, end), a window with
\* start > end running past midnight
C13_WindowIsHalfOpen ==
    (op = "is_within_time_window" /\ arg_input.tz = "America/New_York")
    => ret = Bool(InWindow(TargetTimeOfDay(arg_input), arg_start.tod, arg_end.tod))
\* 10:29:59.5 is inside [09:30, 10:30)
C13_Witness ==
    /\ op = "is_within_time_window"
    /\ arg_input = ZonedDateTime(LocalSecs(2023, 8, 15, 14, 29, 59), 500000000,
                                 "America/New_York")
    /\ arg_start = Time(9, 30, 0)
    /\ arg_end = Time(10, 30, 0)
    /\ ret = Bool(TRUE)

\* C14: for an instant expressed in a zone other than America/New_York,
\* is_within_time_window returns False whatever the window and whatever the
\* wall clocks of the two zones show
C14_ForeignZoneIsRejected ==
    (op = "is_within_time_window" /\ arg_input.tz # "America/New_York")
    => ret = Bool(FALSE)
\* 09:59:59 in London, 04:59:59 in New York, window [09:30, 10:30)
C14_Witness ==
    /\ op = "is_within_time_window"
    /\ arg_input = ZonedDateTime(LocalSecs(2023, 8, 15, 8, 59, 59), 0, "Europe/London")
    /\ arg_start = Time(9, 30, 0)
    /\ arg_end = Time(10, 30, 0)
    /\ InWindow(time(arg_input).tod, arg_start.tod, arg_end.tod)
    /\ ret = Bool(FALSE)

\* C15: each session check is the window check with its fixed bounds: initial
\* balance [09:30, 10:30), New York [07:00, 09:00), London [02:00, 05:00),
\* London close [10:00, 12:00), Asian [20:00, 22:00); is_within_macro_time is
\* the window check with the bounds given
C15_SessionsAreFixedWindows ==
    /\ op = "is_within_initial_balance_period"
       => ret = Bool(is_within_time_window(arg_input, Time(9, 30, 0), Time(10, 30, 0)))
    /\ op = "is_within_ny_killzone"
       => ret = Bool(is_within_time_window(arg_input, Time(7, 0, 0), Time(9, 0, 0)))
    /\ op = "is_within_london_killzone"
       => ret = Bool(is_within_time_window(arg_input, Time(2, 0, 0), Time(5, 0, 0)))
    /\ op = "is_within_london_close_killzone"
       => ret = Bool(is_within_time_window(arg_input, Time(10, 0, 0), Time(12, 0, 0)))
    /\ op = "is_within_asian_killzone"
       => ret = Bool(is_within_time_window(arg_input, Time(20, 0, 0), Time(22, 0, 0)))
    /\ op = "is_within_macro_time"
       => ret = Bool(is_within_time_window(arg_input, arg_start, arg_end))
\* midnight is outside the Asian session
C15_Witness ==
    /\ op = "is_within_asian_killzone"
    /\ arg_input = ZonedDateTime(LocalSecs(2023, 8, 15, 4, 0, 0), 0, "America/New_York")
    /\ TargetTimeOfDay(arg_input) = 0
    /\ ret = Bool(FALSE)

IsIb == op = "calculate_initial_balance"
\* the dates of the batch and the records of one date
BatchDates ==
    { record_date(arg_input[i], arg_market_tz) :
          i \in { i \in DOMAIN arg_input : arg_input[i].timestamp_et # None } }
BarsOf(d) ==
    { arg_input[i] : i \in { i \in DOMAIN arg_input :
                               /\ arg_input[i].timestamp_et # None
                               /\ record_date(arg_input[i], arg_market_tz) = d } }
IsWeekend(d) == weekday(d) \in {5, 6}
WeekendEntry == [type |-> "dict", error |-> "Weekend, IB not calculated."]
\* the text is "HH:MM" with an hour in 0..23 and a minute in 0..59
IsWallTime(txt) ==
    /\ Len(txt.fields) = 2
    /\ txt.fields[1].int /\ txt.fields[1].v \in 0 .. 23
    /\ txt.fields[2].int /\ txt.fields[2].v \in 0 .. 59
\* the civil date-time of the wall time txt on date d, and its instants
CivilOn(d, txt) == d * 86400 + txt.fields[1].v * 3600 + txt.fields[2].v * 60
InstantsOn(d, txt) == Candidates(CivilOn(d, txt), arg_market_tz)
\* start and end are wall times that exist once on date d in the market zone
PeriodExists(d) ==
    /\ IsWallTime(arg_start) /\ IsWallTime(arg_end)
    /\ Cardinality(InstantsOn(d, arg_start)) = 1
    /\ Cardinality(InstantsOn(d, arg_end)) = 1
StartOn(d) == CHOOSE t \in InstantsOn(d, arg_start) : TRUE
EndOn(d) == CHOOSE t \in InstantsOn(d, arg_end) : TRUE
\* the records of date d at or after the start and before the end
BarsInPeriod(d) ==
    { r \in BarsOf(d) : StartOn(d) <= Timestamp(r.timestamp_et)
                           /\ Timestamp(r.timestamp_et) < EndOn(d) }
Priced(r) == r.high.type = "number" /\ r.low.type = "number"
\* every record of a date other than d carries a high and a low
OthersPriced(d) == \A e \in BatchDates \ {d} : \A r \in BarsOf(e) : Priced(r)

\* C16: every Saturday or Sunday of the batch gets the weekend entry, whatever
\* its records and whatever the start and end texts
C16_WeekendIsSkipped ==
    IsIb => \A d \in BatchDates :
               IsWeekend(d) => (ret.type = "dict" /\ ret.items[d] = WeekendEntry)

Without(d) ==
    SelectSeq(arg_input,
              LAMBDA r : r.timestamp_et = None \/ record_date(r, arg_market_tz) # d)
\* the start or the end wall time is skipped or repeated on date d
PeriodIsSkippedOrRepeated(d) ==
    /\ IsWallTime(arg_start) /\ IsWallTime(arg_end)
    /\ \/ Cardinality(InstantsOn(d, arg_start)) # 1
       \/ Cardinality(InstantsOn(d, arg_end)) # 1
DstEntry == [type |-> "dict", error |-> "DST issue for IB time"]

C20_InvalidTimeTextIsRecordedPerDate ==
    (IsIb /\ (~IsWallTime(arg_start) \/ ~IsWallTime(arg_end)))
    => /\ ret.type = "dict"
       /\ \A d \in BatchDates : ~IsWeekend(d) => DOMAIN ret.items[d] = {"type", "error"}

\* the records of date d alone, in the order of the batch
OnlyDate(d) ==
    SelectSeq(arg_input,
              LAMBDA r : r.timestamp_et # None /\ record_date(r, arg_market_tz) = d)
\* the batch in the order p, a permutation of its indices
Reordered(p) == [i \in DOMAIN arg_input |-> arg_input[p[i]]]
\* what a call reports for date d: the entry of d, or the exception raised
EntryOf(result, d) == IF IsExc(result) THEN result ELSE result.items[d]
SameArgs(batch) == calculate_initial_balance(batch, arg_start, arg_end, arg_market_tz)

\* C21: what calculate_initial_balance reports for a date depends only on the
\* records of that date: it is what the call reports for these records alone,
\* and every ordering of the batch gives the same result map
C21_ResultDependsOnOwnRecordsOnly ==
    IsIb => /\ \A d \in BatchDates : EntryOf(ret, d) = EntryOf(SameArgs(OnlyDate(d)), d)
            /\ \A p \in Permutations(DOMAIN arg_input) : SameArgs(Reordered(p)) = ret

IsLookup ==
    /\ op \in {"_get_price_at_time", "get_midnight_open_price_for_day",
               "get_nyse_open_price_for_day", "get_weekly_open_price_for_week"}
    /\ arg_input.type = (IF op = "_get_price_at_time" THEN "ZonedDateTime" ELSE "whenever.Date")
    /\ {"timestamp", "open"} \subseteq arg_ohlc_data_frame.columns
\* the latest Sunday on or before day d
SundayOnOrBefore(d) == CHOOSE s \in d - 6 .. d : weekday(s) = 6
\* the instant, in seconds, of wall time h:mi on day d in America/New_York
NyWallInstant(d, h, mi) ==
    CHOOSE t \in Candidates(d * 86400 + h * 3600 + mi * 60, "America/New_York") : TRUE
\* the anchor instant of the lookup made
AnchorSecs ==
    IF op = "_get_price_at_time" THEN arg_input.secs
    ELSE IF op = "get_midnight_open_price_for_day" THEN NyWallInstant(arg_input.days, 0, 0)
    ELSE IF op = "get_nyse_open_price_for_day" THEN NyWallInstant(arg_input.days, 9, 30)
    ELSE NyWallInstant(SundayOnOrBefore(arg_input.days), 18, 0)
AnchorNanos == IF op = "_get_price_at_time" THEN arg_input.nanos ELSE 0
\* the rows of the frame at the anchor instant
Matching ==
    { i \in DOMAIN arg_ohlc_data_frame.rows :
          /\ arg_ohlc_data_frame.rows[i].timestamp.secs = AnchorSecs
          /\ arg_ohlc_data_frame.rows[i].timestamp.nanos = AnchorNanos }

\* C22: a price lookup returns the open of the row at the anchor instant when
\* exactly one row is at that instant, None when no row is (a row one minute
\* away is not used) and None when more than one row is
C22_LookupNeedsOneExactMatch ==
    IsLookup => IF Cardinality(Matching) = 1
                THEN \A i \in Matching : ret = arg_ohlc_data_frame.rows[i].open
                ELSE ret = None

\* C23: get_weekly_open_price_for_week(D) looks up 18:00 America/New_York on
\* the latest Sunday S on or before D, so it returns for D what it returns for
\* S and for every date from S to the Saturday after S
C23_WeeklyAnchorIsLatestSunday ==
    (op = "get_weekly_open_price_for_week" /\ arg_input.type = "whenever.Date")
    => LET S == SundayOnOrBefore(arg_input.days)
           anchor == ZonedDateTime(NyWallInstant(S, 18, 0), 0, "America/New_York")
       IN  /\ ret = get_price_at_time(anchor, arg_ohlc_data_frame).val
           /\ \A k \in 0 .. 6 :
                 get_weekly_open_price_for_week(Date("whenever.Date", S + k),
                                                arg_ohlc_data_frame).val = ret
\* Sunday 2024-01-14 is its own anchor: the price of that evening, not the one
\* of the Sunday before
C23_Witness ==
    /\ op = "get_weekly_open_price_for_week"
    /\ arg_input = Date("whenever.Date", DaysFromCivil(2024, 1, 14))
    /\ arg_ohlc_data_frame.rows = << Row(NyInstant(2024, 1, 7, 18, 0), Num(100)),
                                     Row(NyInstant(2024, 1, 14, 18, 0), Num(105)) >>
    /\ ret = Num(105)

IsPdt == op = "process_data_timestamps"
\* the timestamp is a naive datetime or a naive string; the civil time it reads
IsNaiveTs(ts) ==
    \/ ts.type = "datetime" /\ ts.tzinfo = NoTzInfo
    \/ ts.type = "str" /\ ts \in NaiveStrings
CivilTs(ts) == IF ts.type = "datetime" THEN ts.ls ELSE CivilOf(ts)
\* the string is a date, a time and a final word holding a "/"
HasZoneWord(ts) ==
    ts.type = "str" /\ Len(ts.parts) > 2 /\ Len(Last(ts.parts).segs) > 1
ZoneWord(ts) == Last(ts.parts).txt
\* the causes for which a timestamp cannot be normalized: missing, unsupported
\* type, unparsable text, unknown zone, gap or overlap of the source zone
CannotBeNormalized(ts, tz) ==
    \/ ts = None
    \/ ts.type \notin {"str", "datetime", "int", "float"}
    \/ ts.type = "str" /\ IsExc(pd_to_datetime(ts.parts)) /\ ~HasZoneWord(ts)
    \/ HasZoneWord(ts) /\ ZoneWord(ts) \notin Zones
    \/ IsNaiveTs(ts) /\ Truthy(tz) /\ tz \notin Zones
    \/ IsNaiveTs(ts) /\ tz \in Zones /\ ~Unique(CivilTs(ts), tz)
    \/ /\ HasZoneWord(ts) /\ ZoneWord(ts) \in Zones
       /\ ~Unique(pd_to_datetime(ButLast(ts.parts)).ls, ZoneWord(ts))
\* the record the call returns for the input record alone
Alone(record) == process_data_timestamps(<<record>>, arg_default_tz)[1]

\* C24: process_data_timestamps returns one record per input record, in the
\* order of the input, each with timestamp_et an instant in America/New_York or
\* None; a timestamp that cannot be normalized gets None, and every record gets
\* what it gets when it is processed alone
C24_FailuresArePerRecord ==
    IsPdt => /\ Len(processed_data) = Len(arg_raw_data)
             /\ \A i \in DOMAIN arg_raw_data :
                   /\ processed_data[i].timestamp = arg_raw_data[i].timestamp
                   /\ processed_data[i].timestamp_et = None
                         \/ InTargetZone(processed_data[i].timestamp_et)
                   /\ CannotBeNormalized(arg_raw_data[i].timestamp, arg_default_tz)
                         => processed_data[i].timestamp_et = None
                   /\ processed_data[i] = Alone(arg_raw_data[i])

\* C25: a naive datetime or naive string that falls in a gap or an overlap of
\* the default source zone gets timestamp_et None; no candidate instant is
\* picked for it
C25_GapOrOverlapIsRecordedAsFailure ==
    (IsPdt /\ arg_default_tz \in Zones)
    => \A i \in DOMAIN arg_raw_data :
          LET ts == arg_raw_data[i].timestamp IN
          (IsNaiveTs(ts) /\ ~Unique(CivilTs(ts), arg_default_tz))
          => processed_data[i].timestamp_et = None

\* C26: a string ending in a recognized zone name z gets None or the instant of
\* its civil time in z, never the instant of that civil time in the default
\* zone or in another zone
C26_ZoneTokenIsTheOnlySourceZone ==
    IsPdt => \A i \in DOMAIN arg_raw_data :
                LET ts == arg_raw_data[i].timestamp
                    et == processed_data[i].timestamp_et
                IN  (ts.type = "str" /\ Recognized(ts))
                    => \/ et = None
                       \/ /\ InTargetZone(et)
                          /\ et.secs \in Candidates(pd_to_datetime(ButLast(ts.parts)).ls,
                                                    Last(ts.parts).txt)

\* the record's instant as the window check takes it, and the wall time of a text
AsZoned(r) ==
    ZonedDateTime(Timestamp(r.timestamp_et), r.timestamp_et.nanos, "America/New_York")
AsTime(txt) == Time(txt.fields[1].v, txt.fields[2].v, 0)
\* the records of date d that is_within_time_window places in [start, end)
InWindowOf(d) ==
    { r \in BarsOf(d) : is_within_time_window(AsZoned(r), AsTime(arg_start), AsTime(arg_end)) }
AllPriced == \A i \in DOMAIN arg_input : arg_input[i].timestamp_et # None => Priced(arg_input[i])

\* C27: for every start and end, also with the start later than the end, the
\* records calculate_initial_balance counts for a weekday are those that
\* is_within_time_window places in the window: wall time >= start or < end
\* when the window runs past midnight
C27_PeriodAgreesWithTimeWindow ==
    (IsIb /\ arg_market_tz = "America/New_York" /\ AllPriced)
    => \A d \in BatchDates :
          (~IsWeekend(d) /\ PeriodExists(d))
          => /\ ret.type = "dict"
             /\ IF InWindowOf(d) = {}
                THEN "message" \in DOMAIN ret.items[d]
                ELSE /\ "message" \notin DOMAIN ret.items[d]
                     /\ \E r \in InWindowOf(d) : ret.items[d].ib_high = r.high
                     /\ \A r \in InWindowOf(d) : r.high.v <= ret.items[d].ib_high.v
                     /\ \E r \in InWindowOf(d) : ret.items[d].ib_low = r.low
                     /\ \A r \in InWindowOf(d) : ret.items[d].ib_low.v <= r.low.v

\* the highs and the lows the in-period records of date d carry
HighsOf(d) == { r.high : r \in { r \in BarsInPeriod(d) : r.high.type = "number" } }
LowsOf(d) == { r.low : r \in { r \in BarsInPeriod(d) : r.low.type = "number" } }

\* C28: whatever highs and lows are present, missing or None among the
\* in-period records of a weekday, the call returns a map; the high is the
\* greatest high and the low the least low among those the records carry
C28_MissingPricesAreIgnored ==
    (IsIb /\ IsWallTime(arg_start) /\ IsWallTime(arg_end))
    => /\ ret.type = "dict"
       /\ \A d \in BatchDates :
             (~IsWeekend(d) /\ PeriodExists(d) /\ BarsInPeriod(d) # {})
             => /\ HighsOf(d) # {}
                   => /\ ret.items[d].ib_high \in HighsOf(d)
                      /\ \A h \in HighsOf(d) : h.v <= ret.items[d].ib_high.v
                /\ LowsOf(d) # {}
                   => /\ ret.items[d].ib_low \in LowsOf(d)
                      /\ \A l \in LowsOf(d) : ret.items[d].ib_low.v <= l.v

\* the civil date of the record's instant in the market zone
DateInMarketZone(r) == WallClock(r.timestamp_et.ls - r.timestamp_et.tzinfo.off, arg_market_tz) \div 86400
\* the records of the batch whose timestamp_et is not the failure value
Normalized == SelectSeq(arg_input, LAMBDA r : r.timestamp_et # None)

\* C29: the keys of the returned map are exactly the civil dates, in the market
\* zone (America/New_York unless the caller names another), of the records
\* whose timestamp_et is not None, whatever zone a record's instant is carried
\* in; records with timestamp_et None add no key and change no entry, and an
\* empty batch gives an empty map
C29_KeysAreTheDatesOfTheRecords ==
    (IsIb /\ ret.type = "dict")
    => /\ DOMAIN ret.items = { DateInMarketZone(Normalized[i]) : i \in DOMAIN Normalized }
       /\ ret = SameArgs(Normalized)
       /\ arg_input = <<>> => ret = Dict(<<>>)
\* a record carried in UTC at 01:00 on 2023-08-16 and a record with
\* timestamp_et None: the only key is 2023-08-15
C29_Witness ==
    /\ IsIb
    /\ arg_input = << Bar(Datetime(LocalSecs(2023, 8, 16, 1, 0, 0), 0, PytzTz("UTC", 0)),
                          Num(140), Num(60)),
                      Bar(None, Num(100), Num(99)) >>
    /\ arg_market_tz = "America/New_York"
    /\ ret.type = "dict"
    /\ DOMAIN ret.items = { DaysFromCivil(2023, 8, 15) }

====
